---- MODULE Spec2Model ----
(***************************************************************************)
(* Model of the code that crates/macros/src/lib.rs injects into a build    *)
(* script: the recursive copy (Tree Mirror), copy_to_profile (Profile      *)
(* Locator), the architecture match and the deployment sequence around     *)
(* them.  The filesystem is a function from paths to entries; the two      *)
(* recursive functions run on an explicit call stack, one loop iteration   *)
(* per action.                                                             *)
(***************************************************************************)
EXTENDS Naturals, Integers, Sequences, FiniteSets, TLC

VARIABLES
    fs,           \* the filesystem: path -> entry
    stack,        \* call stack of copy / copy_to_profile frames, top first
    pc,           \* position of the caller (the deployment block, or a driver)
    env,          \* the environment variables read by the deployment block
    source,       \* the deployment block's `source` PathBuf
    destination,  \* the deployment block's `destination` PathBuf
    log,          \* what the block has printed / called so far, in order
    faults,       \* number of I/O faults injected so far
    failed,       \* paths at which a filesystem operation returned an error
    orig,         \* the filesystem at the start of the run
    snap,         \* the filesystem when the first mirror returned
    added,        \* paths added to the destination between two mirrors
    graph,        \* metadata graph: node -> set of direct dependencies
    selected,     \* directly selected nodes
    resolved,     \* Resolution Set built so far
    work          \* nodes whose dependencies are still to be unioned in

vars == <<fs, stack, pc, env, source, destination, log, faults, failed,
          orig, snap, added, graph, selected, resolved, work>>

fsvars == <<fs, stack, faults, failed>>
buildvars == <<env, source, destination, log>>
mirrorvars == <<snap, added>>
resolvevars == <<graph, selected, resolved, work>>

(***************************************************************************)
(* Bounds                                                                  *)
(***************************************************************************)
\* I/O faults injected in one run
MaxFaults == 1
\* nesting depth of the directories below the search root
MaxDepth == 2
\* entries added to the destination between two mirrors
MaxAdds == 1

(***************************************************************************)
(* Paths and the filesystem                                                *)
(***************************************************************************)
Dir == [kind |-> "dir", data |-> 0]
Other == [kind |-> "other", data |-> 0]
File(d) == [kind |-> "file", data |-> d]
\* what a copy that failed half way leaves at its destination
TornFile == [kind |-> "file", data |-> 99]

Parent(p) == SubSeq(p, 1, Len(p) - 1)
Last(p) == p[Len(p)]
IsPrefix(a, b) == Len(a) <= Len(b) /\ SubSeq(b, 1, Len(a)) = a
Rel(root, p) == SubSeq(p, Len(root) + 1, Len(p))
Prefixes(p) == {SubSeq(p, 1, k) : k \in 1..Len(p)}

PathExists(f, p) == p = <<>> \/ p \in DOMAIN f
IsDir(f, p) == p = <<>> \/ (p \in DOMAIN f /\ f[p].kind = "dir")
IsFile(f, p) == p \in DOMAIN f /\ f[p].kind = "file"
ChildNames(f, p) == {Last(q) : q \in {r \in DOMAIN f : Len(r) = Len(p) + 1 /\ Parent(r) = p}}
Under(f, root) == {p \in DOMAIN f : IsPrefix(root, p) /\ p # root}
Graft(root, t) == [p \in {root \o q : q \in DOMAIN t} |-> t[Rel(root, p)]]
Put(f, p, e) == [q \in DOMAIN f \cup {p} |-> IF q = p THEN e ELSE f[q]]

\* std::fs::create_dir_all: Ok when the path is (or becomes) a directory
CreateDirAllWipe(f, p) ==
    IF \E q \in Prefixes(p) : q \in DOMAIN f /\ f[q].kind # "dir"
    THEN [ok |-> FALSE, fs |-> f]
    ELSE [ok |-> TRUE,
          fs |-> [q \in {r \in DOMAIN f : ~(IsPrefix(p, r) /\ r # p)} \cup Prefixes(p) |->
                    IF q \in DOMAIN f THEN f[q] ELSE Dir]]
CreateDirAll(f, p) ==
    IF \E q \in Prefixes(p) : q \in DOMAIN f /\ f[q].kind # "dir"
    THEN [ok |-> FALSE, fs |-> f]
    ELSE [ok |-> TRUE,
          fs |-> [q \in DOMAIN f \cup Prefixes(p) |->
                    IF q \in DOMAIN f THEN f[q] ELSE Dir]]

\* std::fs::create_dir: Err when the path exists or its parent is no directory;
\* `benign` marks the AlreadyExists error on an existing directory
CreateDir(f, p) ==
    IF p \in DOMAIN f THEN [ok |-> FALSE, benign |-> f[p].kind = "dir", fs |-> f]
    ELSE IF ~IsDir(f, Parent(p)) THEN [ok |-> FALSE, benign |-> FALSE, fs |-> f]
    ELSE [ok |-> TRUE, benign |-> FALSE, fs |-> Put(f, p, Dir)]

\* std::fs::copy: creates or truncates the destination file
CopyFileKeep(f, from, to) ==
    IF ~IsFile(f, from) \/ ~IsDir(f, Parent(to)) THEN [ok |-> FALSE, fs |-> f]
    ELSE IF to \in DOMAIN f THEN [ok |-> f[to].kind = "file", fs |-> f]
    ELSE [ok |-> TRUE, fs |-> Put(f, to, File(f[from].data))]
CopyFile(f, from, to) ==
    IF ~IsFile(f, from) \/ ~IsDir(f, Parent(to)) THEN [ok |-> FALSE, fs |-> f]
    ELSE IF to \in DOMAIN f /\ f[to].kind # "file" THEN [ok |-> FALSE, fs |-> f]
    ELSE [ok |-> TRUE, fs |-> Put(f, to, File(f[from].data))]

\* `let _ = ...` and `if let Ok(..) = ...`: an Err is dropped, never unwrapped
Propagate(ok) == IF ok THEN "continue" ELSE "panic"
Discard(ok) == "continue"


(***************************************************************************)
(* The call stack.  A frame is one activation of copy or copy_to_profile:  *)
(* its arguments, whether read_dir has run, and the entries the `for`      *)
(* loop has still to visit.                                                *)
(***************************************************************************)
Frame(fn, src, dst) == [fn |-> fn, src |-> src, dst |-> dst, open |-> FALSE, todo |-> {}]
Top == stack[1]
Rest == Tail(stack)
Inject(n) == faults + n <= MaxFaults
AfterResult(ok) == IF Discard(ok) = "panic" THEN "aborted" ELSE pc
StackAfter(ok, s) == IF Discard(ok) = "panic" THEN <<>> ELSE s

\* the iterator of a `for` loop moves past the entry it yielded
NextStuck(todo, n) == todo
Next_(todo, n) == todo \ {n}

(***************************************************************************)
(* copy (Tree Mirror)                                                      *)
(***************************************************************************)
\* line 69: read_dir(source); an Err returns from copy at once
CopyOpen ==
    /\ stack # <<>> /\ Top.fn = "copy" /\ ~Top.open
    /\ \E flt \in BOOLEAN :
        /\ flt => (Inject(1) /\ IsDir(fs, Top.src))
        /\ LET ok == ~flt /\ IsDir(fs, Top.src) IN
            /\ faults' = faults + (IF flt THEN 1 ELSE 0)
            /\ failed' = IF ok THEN failed ELSE failed \cup {Top.dst}
            /\ stack' = StackAfter(ok,
                   IF ok THEN <<[Top EXCEPT !.open = TRUE, !.todo = ChildNames(fs, Top.src)]>> \o Rest
                   ELSE Rest)
            /\ pc' = AfterResult(ok)
    /\ UNCHANGED <<fs, buildvars, orig, mirrorvars, resolvevars>>

\* the faults that can hit one iteration over an entry of the given kind; "entry"
\* is an Err from the iterator or from file_type (lines 70-71: the entry is skipped)
EntryFaults(kind) ==
    {{}, {"entry"}, {"mkall"}}
    \cup (IF kind = "file" THEN {{"copy"}, {"torn"}}
          ELSE IF kind = "dir" THEN {{"mkdir"}}
          ELSE {})

\* lines 70-84: one iteration of copy's loop, for the entry named n
CopyEntryResult(f, src, dst, n, F) ==
    LET from == src \o <<n>>
        to == dst \o <<n>>
        kind == f[from].kind
        all0 == CreateDirAll(f, dst)
        all == IF "mkall" \in F THEN [ok |-> FALSE, fs |-> f] ELSE all0
        cp0 == CopyFile(all.fs, from, to)
        cp == IF "copy" \in F THEN [ok |-> FALSE, fs |-> all.fs]
              ELSE IF "torn" \in F THEN [ok |-> FALSE, fs |-> Put(all.fs, to, TornFile)]
              ELSE cp0
        mk0 == CreateDir(all.fs, to)
        mk == IF "mkdir" \in F THEN [ok |-> FALSE, benign |-> FALSE, fs |-> all.fs] ELSE mk0
        allbad == IF all.ok THEN {} ELSE {dst}
        allreal == "mkall" \in F => (all0.ok /\ ~IsDir(f, dst))
    IN  IF "entry" \in F
        THEN [fs |-> f, bad |-> {to}, ok |-> FALSE, call |-> FALSE, real |-> TRUE]
        ELSE IF kind = "file"
        THEN [fs |-> cp.fs, bad |-> allbad \cup (IF cp.ok THEN {} ELSE {to}),
              ok |-> all.ok /\ cp.ok, call |-> FALSE,
              real |-> allreal /\ ((F \cap {"copy", "torn"} # {}) => cp0.ok)]
        ELSE IF kind = "dir"
        THEN [fs |-> mk.fs, bad |-> allbad \cup (IF mk.ok \/ mk.benign THEN {} ELSE {to}),
              ok |-> all.ok /\ mk.ok, call |-> TRUE,
              real |-> allreal /\ ("mkdir" \in F => mk0.ok)]
        ELSE [fs |-> all.fs, bad |-> allbad, ok |-> all.ok, call |-> FALSE, real |-> allreal]

CopyEntry ==
    /\ stack # <<>> /\ Top.fn = "copy" /\ Top.open /\ Top.todo # {}
    /\ \E n \in Top.todo :
       \E F \in EntryFaults(fs[Top.src \o <<n>>].kind) :
        LET r == CopyEntryResult(fs, Top.src, Top.dst, n, F)
            me == [Top EXCEPT !.todo = Next_(Top.todo, n)]
        IN  /\ Inject(Cardinality(F)) /\ r.real
            /\ faults' = faults + Cardinality(F)
            /\ fs' = r.fs
            /\ failed' = failed \cup r.bad
            /\ stack' = StackAfter(r.ok,
                   IF r.call
                   THEN <<Frame("copy", Top.src \o <<n>>, Top.dst \o <<n>>), me>> \o Rest
                   ELSE <<me>> \o Rest)
            /\ pc' = AfterResult(r.ok)
    /\ UNCHANGED <<buildvars, orig, mirrorvars, resolvevars>>

\* line 86-87: the loop is over, copy returns
CopyReturn ==
    /\ stack # <<>> /\ Top.fn = "copy" /\ Top.open /\ Top.todo = {}
    /\ stack' = Rest
    /\ UNCHANGED <<fs, pc, faults, failed, buildvars, orig, mirrorvars, resolvevars>>

(***************************************************************************)
(* copy_to_profile (Profile Locator)                                       *)
(***************************************************************************)
\* lines 96-100: a directory named as the profile is copied into, any other
\* directory is searched
ProfileActionShallow(filename, profile) == IF filename = profile THEN "copy" ELSE "skip"
ProfileAction(filename, profile) == IF filename = profile THEN "copy" ELSE "copy_to_profile"

\* line 90: read_dir(destination)
LocateOpen ==
    /\ stack # <<>> /\ Top.fn = "copy_to_profile" /\ ~Top.open
    /\ \E flt \in BOOLEAN :
        /\ flt => (Inject(1) /\ IsDir(fs, Top.dst))
        /\ LET ok == ~flt /\ IsDir(fs, Top.dst) IN
            /\ faults' = faults + (IF flt THEN 1 ELSE 0)
            /\ failed' = IF ok THEN failed ELSE failed \cup {Top.dst}
            /\ stack' = StackAfter(ok,
                   IF ok THEN <<[Top EXCEPT !.open = TRUE, !.todo = ChildNames(fs, Top.dst)]>> \o Rest
                   ELSE Rest)
            /\ pc' = AfterResult(ok)
    /\ UNCHANGED <<fs, buildvars, orig, mirrorvars, resolvevars>>

\* lines 91-103: one iteration of copy_to_profile's loop
LocateEntry ==
    /\ stack # <<>> /\ Top.fn = "copy_to_profile" /\ Top.open /\ Top.todo # {}
    /\ \E n \in Top.todo :
       \E flt \in BOOLEAN :
        LET path == Top.dst \o <<n>>
            me == [Top EXCEPT !.todo = Next_(Top.todo, n)]
            act == IF flt \/ fs[path].kind # "dir" THEN "skip"
                   ELSE ProfileAction(n, env.profile)
        IN  /\ flt => Inject(1)
            /\ faults' = faults + (IF flt THEN 1 ELSE 0)
            /\ failed' = IF flt THEN failed \cup {path} ELSE failed
            /\ stack' = StackAfter(~flt,
                   IF act = "skip" THEN <<me>> \o Rest
                   ELSE <<Frame(act, Top.src, path), me>> \o Rest)
            /\ pc' = AfterResult(~flt)
    /\ UNCHANGED <<fs, buildvars, orig, mirrorvars, resolvevars>>

\* lines 105-106: the loop is over, copy_to_profile returns
LocateReturn ==
    /\ stack # <<>> /\ Top.fn = "copy_to_profile" /\ Top.open /\ Top.todo = {}
    /\ stack' = Rest
    /\ UNCHANGED <<fs, pc, faults, failed, buildvars, orig, mirrorvars, resolvevars>>

FsStep == CopyOpen \/ CopyEntry \/ CopyReturn \/ LocateOpen \/ LocateEntry \/ LocateReturn

(***************************************************************************)
(* The deployment block (lines 108-139)                                    *)
(***************************************************************************)
Unset == "(unset)"
\* CARGO_MANIFEST_DIR, and the directory two levels above the first PATH entry
ManifestDir == <<"m">>
TargetRoot == <<"t">>

\* lines 115-121: the match on CARGO_CFG_TARGET_ARCH; "" stands for the panic arm
ArchMapSwapped(arch) ==
    CASE arch = "x86_64" -> "x64"
      [] arch = "x86" -> "x86"
      [] arch = "arm" -> "arm64"
      [] arch = "aarch64" -> "arm"
      [] OTHER -> ""
ArchMap(arch) ==
    CASE arch = "x86_64" -> "x64"
      [] arch = "x86" -> "x86"
      [] arch = "arm" -> "arm"
      [] arch = "aarch64" -> "arm64"
      [] OTHER -> ""

\* Path::exists: false when the path is absent or cannot be probed
Probe(f, p, flt) == ~flt /\ PathExists(f, p)

\* lines 111-112: the rerun-if-changed line is printed when `.windows` exists
WatchSignalLate(exists) == <<>>
WatchSignal(exists) == IF exists THEN <<"rerun-if-changed">> ELSE <<>>
\* lines 123-125: the link-search line is printed when the architecture directory exists
LinkSignalAlways(exists) == <<"rustc-link-search">>
LinkSignal(exists) == IF exists THEN <<"rustc-link-search">> ELSE <<>>
\* lines 134-135: where the winmd files are deployed
WinmdDestinationProfile(dest) == dest \o <<env.profile, ".windows", "winmd">>
WinmdDestination(dest) == dest \o <<".windows", "winmd">>

\* lines 108-112
BuildManifest ==
    /\ pc = "start"
    /\ \E flt \in BOOLEAN :
        LET src == ManifestDir \o <<".windows">>
            exists == Probe(fs, src, flt)
        IN  /\ flt => (Inject(1) /\ PathExists(fs, src))
            /\ faults' = faults + (IF flt THEN 1 ELSE 0)
            /\ failed' = IF flt THEN failed \cup {src} ELSE failed
            /\ source' = src
            /\ log' = log \o WatchSignal(exists)
            /\ pc' = IF exists THEN "arch" ELSE "done"
    /\ UNCHANGED <<fs, stack, env, destination, orig, mirrorvars, resolvevars>>

\* lines 115-121
BuildArch ==
    /\ pc = "arch"
    /\ IF env.arch = Unset \/ ArchMap(env.arch) = ""
       THEN pc' = "aborted" /\ UNCHANGED source
       ELSE pc' = "link" /\ source' = source \o <<ArchMap(env.arch)>>
    /\ UNCHANGED <<fsvars, env, destination, log, orig, mirrorvars, resolvevars>>

\* lines 123-125
BuildLink ==
    /\ pc = "link"
    /\ \E flt \in BOOLEAN :
        LET exists == Probe(fs, source, flt)
        IN  /\ flt => (Inject(1) /\ PathExists(fs, source))
            /\ faults' = faults + (IF flt THEN 1 ELSE 0)
            /\ failed' = IF flt THEN failed \cup {source} ELSE failed
            /\ log' = log \o LinkSignal(exists)
            /\ pc' = "profile"
    /\ UNCHANGED <<fs, stack, env, source, destination, orig, mirrorvars, resolvevars>>

\* lines 127-132
BuildLocate ==
    /\ pc = "profile"
    /\ destination' = TargetRoot
    /\ IF env.profile = Unset
       THEN pc' = "aborted" /\ UNCHANGED <<stack, log>>
       ELSE /\ pc' = "locating"
            /\ log' = Append(log, "copy_to_profile")
            /\ stack' = <<Frame("copy_to_profile", source, TargetRoot)>>
    /\ UNCHANGED <<fs, faults, failed, env, source, orig, mirrorvars, resolvevars>>

\* lines 134-138
BuildWinmd ==
    /\ pc = "locating" /\ stack = <<>>
    /\ destination' = WinmdDestination(destination)
    /\ source' = Parent(source) \o <<"winmd">>
    /\ log' = Append(log, "copy winmd")
    /\ stack' = <<Frame("copy", source', destination')>>
    /\ pc' = "winmd"
    /\ UNCHANGED <<fs, faults, failed, env, orig, mirrorvars, resolvevars>>

\* line 139
BuildFinish ==
    /\ pc = "winmd" /\ stack = <<>>
    /\ pc' = "done"
    /\ UNCHANGED <<fsvars, buildvars, orig, mirrorvars, resolvevars>>

(***************************************************************************)
(* Initial filesystems of a build                                          *)
(***************************************************************************)
Empty == <<>> :> Dir
\* artifact trees found in an architecture directory
Artifacts1 == Empty @@ (<<"a.dll">> :> File(1))
Artifacts2 == Artifacts1 @@ (<<"sub">> :> Dir) @@ (<<"sub", "b.dll">> :> File(2))
                 @@ (<<"lnk">> :> Other)
Winmd1 == Empty @@ (<<"w.winmd">> :> File(3))
NoTree == [p \in {} |-> Dir]

\* the `.windows` directory: an architecture directory (or none) and winmd (or none)
Layouts ==
    {NoTree}
    \cup {Graft(ManifestDir, Empty) @@ Graft(ManifestDir \o <<".windows">>, Empty)
            @@ a @@ w :
            a \in {NoTree} \cup {Graft(ManifestDir \o <<".windows", d>>, t) :
                                    d \in {"x64", "arm64"}, t \in {Artifacts1, Artifacts2}},
            w \in {NoTree, Graft(ManifestDir \o <<".windows", "winmd">>, Winmd1)}}

\* output trees of a build: profile directories at several places, a stale
\* copy, a directory in the way of a file, the winmd files of an earlier build
OutputTrees ==
    {Graft(TargetRoot, Empty @@ t) :
        t \in {NoTree,
               <<"release">> :> Dir,
               (<<"debug">> :> Dir) @@ (<<"debug", "release">> :> Dir)
                   @@ (<<"release">> :> Dir) @@ (<<"release", "a.dll">> :> File(0)),
               (<<"release">> :> Dir) @@ (<<"release", "release">> :> Dir)
                   @@ (<<"debug">> :> Dir),
               (<<"debug">> :> Dir) @@ (<<"debug", "a.dll">> :> Dir)
                   @@ (<<"release">> :> Other),
               (<<"release">> :> Dir) @@ (<<".windows">> :> Dir)
                   @@ (<<".windows", "winmd">> :> Dir)
                   @@ (<<".windows", "winmd", "w.winmd">> :> File(0))}}

Archs == {"x86_64", "x86", "arm", "aarch64", "riscv64", Unset}
Profiles == {"release", "debug", Unset}

Idle ==
    /\ stack = <<>>
    /\ source = <<>>
    /\ destination = <<>>
    /\ log = <<>>
    /\ faults = 0
    /\ failed = {}
    /\ snap = NoTree
    /\ added = NoTree
    /\ graph = <<>>
    /\ selected = {}
    /\ resolved = {}
    /\ work = {}

Init ==
    /\ fs \in {l @@ o : l \in Layouts, o \in OutputTrees}
    /\ orig = fs
    /\ env \in [arch : Archs, profile : Profiles]
    /\ pc = "start"
    /\ Idle

Next ==
    \/ BuildManifest
    \/ BuildArch
    \/ BuildLink
    \/ BuildLocate
    \/ BuildWinmd
    \/ BuildFinish
    \/ FsStep

Spec == Init /\ [][Next]_vars

(***************************************************************************)
(* copy_to_profile on its own: one call on a search root that holds        *)
(* directories nested up to MaxDepth deep                                  *)
(***************************************************************************)
ArtifactRoot == ManifestDir \o <<".windows", "x64">>
DirNames == {"release", "debug"}
Chains == UNION {[1..k -> DirNames] : k \in 0..MaxDepth}
DirTree(c) == [p \in Prefixes(c) |-> Dir]
\* a chain of nested directories, beside a profile directory below `debug` or not
SearchTrees ==
    {Graft(TargetRoot, Empty @@ DirTree(c1) @@ DirTree(c2)) :
        c1 \in Chains, c2 \in {<<>>, <<"debug", "release">>}}

LocateCall ==
    /\ pc = "search"
    /\ stack' = <<Frame("copy_to_profile", ArtifactRoot, TargetRoot)>>
    /\ pc' = "searching"
    /\ UNCHANGED <<fs, faults, failed, buildvars, orig, mirrorvars, resolvevars>>

LocateDone ==
    /\ pc = "searching" /\ stack = <<>>
    /\ pc' = "searched"
    /\ UNCHANGED <<fsvars, buildvars, orig, mirrorvars, resolvevars>>

InitLocate ==
    /\ fs \in {Graft(ManifestDir, Empty) @@ Graft(ManifestDir \o <<".windows">>, Empty)
                 @@ Graft(ArtifactRoot, a) @@ o :
                 a \in {Artifacts1, Artifacts2}, o \in SearchTrees}
    /\ orig = fs
    /\ env = [arch |-> "x86_64", profile |-> "release"]
    /\ pc = "search"
    /\ Idle

NextLocate == LocateCall \/ LocateDone \/ FsStep

SpecLocate == InitLocate /\ [][NextLocate]_vars
\* the build script is a single thread that runs on until it returns
FairLocate == SpecLocate /\ WF_vars(NextLocate)

(***************************************************************************)
(* copy on its own: a tree is mirrored into a destination, entries are     *)
(* added to the destination, the tree is mirrored again                    *)
(***************************************************************************)
SrcRoot == <<"s">>
DstRoot == <<"d">>
MirrorSources ==
    {Graft(SrcRoot, t) :
        t \in {NoTree, Empty, Artifacts1, Artifacts2,
               Empty @@ (<<"sub">> :> Dir),
               Empty @@ (<<"sub">> :> Dir) @@ (<<"sub", "b.dll">> :> File(2))}}
MirrorDests ==
    {NoTree} \cup
    {Graft(DstRoot, Empty @@ a @@ b @@ k) :
        a \in {NoTree, <<"a.dll">> :> File(0), <<"a.dll">> :> Dir},
        b \in {NoTree, <<"sub">> :> File(0), <<"sub">> :> Dir,
               (<<"sub">> :> Dir) @@ (<<"sub", "b.dll">> :> File(0)),
               (<<"sub">> :> Dir) @@ (<<"sub", "keep">> :> File(8))},
        k \in {NoTree, <<"keep">> :> File(7)}}
\* what may be added to the destination between the two mirrors
Additions ==
    (<<"new">> :> File(5)) @@ (<<"sub", "new">> :> File(6)) @@ (<<"ndir">> :> Dir)
        @@ (<<"a.dll">> :> File(9))
\* the relative paths of the source tree
SourcePaths == {Rel(SrcRoot, p) : p \in Under(orig, SrcRoot)}

MirrorFirst ==
    /\ pc = "mirror"
    /\ stack' = <<Frame("copy", SrcRoot, DstRoot)>>
    /\ pc' = "first"
    /\ UNCHANGED <<fs, faults, failed, buildvars, orig, mirrorvars, resolvevars>>

MirrorReturned ==
    /\ pc = "first" /\ stack = <<>>
    /\ snap' = fs
    /\ pc' = "between"
    /\ UNCHANGED <<fsvars, buildvars, orig, added, resolvevars>>

\* something else writes a new entry into the destination
AddEntry ==
    /\ pc = "between"
    /\ Cardinality(DOMAIN added) < MaxAdds
    /\ \E q \in DOMAIN Additions :
        LET p == DstRoot \o q IN
        /\ q \notin SourcePaths
        /\ p \notin DOMAIN fs
        /\ IsDir(fs, Parent(p))
        /\ fs' = Put(fs, p, Additions[q])
        /\ added' = Put(added, p, Additions[q])
    /\ UNCHANGED <<stack, pc, faults, failed, buildvars, orig, snap, resolvevars>>

MirrorSecond ==
    /\ pc = "between"
    /\ stack' = <<Frame("copy", SrcRoot, DstRoot)>>
    /\ pc' = "second"
    /\ UNCHANGED <<fs, faults, failed, buildvars, orig, mirrorvars, resolvevars>>

MirrorDone ==
    /\ pc = "second" /\ stack = <<>>
    /\ pc' = "mirrored"
    /\ UNCHANGED <<fsvars, buildvars, orig, mirrorvars, resolvevars>>

InitMirror ==
    /\ fs \in {t @@ d : t \in MirrorSources, d \in MirrorDests}
    /\ orig = fs
    /\ env = [arch |-> Unset, profile |-> Unset]
    /\ pc = "mirror"
    /\ Idle

NextMirror ==
    \/ MirrorFirst
    \/ MirrorReturned
    \/ AddEntry
    \/ MirrorSecond
    \/ MirrorDone
    \/ CopyOpen
    \/ CopyEntry
    \/ CopyReturn

SpecMirror == InitMirror /\ [][NextMirror]_vars

(***************************************************************************)
(* Selector resolution: the dependency closure of the selected nodes, as   *)
(* the specification describes it (a work list with a visited set)         *)
(***************************************************************************)
Nodes == {"A", "B", "C"}

\* the dependencies of n that the Resolution Set does not hold yet
NewNodesDirect(g, n, res) == IF n \in selected THEN g[n] \ res ELSE {}
NewNodes(g, n, res) == g[n] \ res

ResolveStart ==
    /\ pc = "resolve"
    /\ resolved' = selected
    /\ work' = selected
    /\ pc' = "closing"
    /\ UNCHANGED <<fsvars, buildvars, orig, mirrorvars, graph, selected>>

ResolveStep ==
    /\ pc = "closing"
    /\ \E n \in work :
        LET new == NewNodes(graph, n, resolved) IN
        /\ resolved' = resolved \cup new
        /\ work' = (work \ {n}) \cup new
    /\ UNCHANGED <<fsvars, buildvars, orig, mirrorvars, graph, selected, pc>>

ResolveDone ==
    /\ pc = "closing" /\ work = {}
    /\ pc' = "resolved"
    /\ UNCHANGED <<fsvars, buildvars, orig, mirrorvars, resolvevars>>

InitResolve ==
    /\ graph \in [Nodes -> SUBSET Nodes]
    /\ selected \in SUBSET Nodes \ {{}}
    /\ resolved = {}
    /\ work = {}
    /\ pc = "resolve"
    /\ fs = NoTree
    /\ orig = NoTree
    /\ env = [arch |-> Unset, profile |-> Unset]
    /\ stack = <<>>
    /\ source = <<>>
    /\ destination = <<>>
    /\ log = <<>>
    /\ faults = 0
    /\ failed = {}
    /\ snap = NoTree
    /\ added = NoTree

NextResolve == ResolveStart \/ ResolveStep \/ ResolveDone

SpecResolve == InitResolve /\ [][NextResolve]_vars

(***************************************************************************)
(* Properties                                                              *)
(***************************************************************************)
Recognized == {"x86_64", "x86", "arm", "aarch64"}
WindowsDir == ManifestDir \o <<".windows">>
\* `.windows` exists and the probe of it did not fail
WindowsFound == PathExists(orig, WindowsDir) /\ WindowsDir \notin failed
\* every file below S lies below D with the same content, every directory is a directory
Mirrored(f, S, D) ==
    \A p \in Under(f, S) :
        LET q == D \o Rel(S, p) IN
        /\ f[p].kind = "file" => (q \in DOMAIN f /\ f[q] = f[p])
        /\ f[p].kind = "dir" => IsDir(f, q)
\* an operation failed at x or at a directory above x
Affected(x) == \E q \in failed : IsPrefix(q, x)
\* the directories below the search root that carry the profile's name
ProfileDirs ==
    {M \in Under(orig, TargetRoot) : orig[M].kind = "dir" /\ Last(M) = env.profile}
\* those of them that lie in no other directory of that name
OuterProfileDirs ==
    {M \in ProfileDirs : \A k \in (Len(TargetRoot) + 1)..(Len(M) - 1) : M[k] # env.profile}

\* C1: when no filesystem operation fails (an AlreadyExists from create_dir on a
\* directory that is already there aside), after copy(T, D) has returned every file
\* of T lies at the same relative path in D with the source's content, whatever D
\* held there before, and every subdirectory of T is a directory in D.
C1_TreeMirror ==
    (pc \in {"between", "mirrored"} /\ failed = {}) => Mirrored(fs, SrcRoot, DstRoot)

\* C1 witness: a mirror without failure has replaced an older a.dll and created sub
C1_Witness ==
    /\ pc = "between" /\ failed = {}
    /\ DstRoot \o <<"a.dll">> \in DOMAIN orig
    /\ orig[DstRoot \o <<"a.dll">>] = File(0)
    /\ fs[DstRoot \o <<"a.dll">>] = File(1)
    /\ DstRoot \o <<"sub">> \notin DOMAIN orig
    /\ IsFile(fs, DstRoot \o <<"sub", "b.dll">>)

\* C2: no mirror removes or changes an entry of the destination whose relative path
\* is absent from the source tree, be it there from the start or added between the
\* mirrors; and when no operation fails the second mirror leaves the destination as
\* the first mirror left it, plus the entries added in between.
C2_CopyIdempotence ==
    /\ \A p \in Under(orig, DstRoot) \cup {DstRoot} :
          (p \in DOMAIN orig /\ Rel(DstRoot, p) \notin SourcePaths)
              => (p \in DOMAIN fs /\ fs[p] = orig[p])
    /\ \A p \in DOMAIN added : p \in DOMAIN fs /\ fs[p] = added[p]
    /\ (pc = "mirrored" /\ failed = {}) => fs = added @@ snap

\* C2 witness: both mirrors ran without failure on a tree with files, the destination
\* held an entry of its own and got another one between the mirrors
C2_Witness ==
    /\ pc = "mirrored" /\ failed = {}
    /\ DOMAIN added # {}
    /\ DstRoot \o <<"keep">> \in DOMAIN orig
    /\ IsFile(fs, DstRoot \o <<"sub", "b.dll">>)
    /\ IsFile(fs, DstRoot \o <<"a.dll">>)

\* C3 as stated: after copy_to_profile has returned without a failure, every
\* directory below the search root that carries the profile's name, whatever its
\* ancestors, holds a mirror of the artifact tree.
C3_EveryProfileDir ==
    (pc = "searched" /\ failed = {}) =>
        \A M \in ProfileDirs : Mirrored(fs, ArtifactRoot, M)

\* C3 amended: after copy_to_profile has returned without a failure, every directory
\* below the search root that carries the profile's name and lies in no other
\* directory of that name holds a mirror of the artifact tree, at any depth.
C3_OuterProfileDirs ==
    (pc = "searched" /\ failed = {}) =>
        \A M \in OuterProfileDirs : Mirrored(fs, ArtifactRoot, M)

\* C3 witness: profile directories at depth 1 and at depth 2 both received a.dll
C3_Witness ==
    /\ pc = "searched" /\ failed = {}
    /\ IsFile(fs, TargetRoot \o <<"release", "a.dll">>)
    /\ IsFile(fs, TargetRoot \o <<"debug", "release", "a.dll">>)
    /\ IsFile(fs, TargetRoot \o <<"debug", "release", "sub", "b.dll">>)

\* C4: once the architecture is resolved the directory pushed onto `source` is x64
\* for x86_64, x86 for x86, arm for arm and arm64 for aarch64; with any other value
\* (or none) the block never gets past the match: it panics, and no directory name
\* is pushed.
C4_ArchitectureMapper ==
    /\ pc \in {"link", "profile", "locating"} =>
          \/ env.arch = "x86_64" /\ source = WindowsDir \o <<"x64">>
          \/ env.arch = "x86" /\ source = WindowsDir \o <<"x86">>
          \/ env.arch = "arm" /\ source = WindowsDir \o <<"arm">>
          \/ env.arch = "aarch64" /\ source = WindowsDir \o <<"arm64">>
    /\ env.arch \notin Recognized =>
          /\ pc \in {"start", "arch", "aborted", "done"}
          /\ source \in {<<>>, WindowsDir}
          /\ pc = "done" => ~WindowsFound

\* C4 witness: aarch64 has been mapped to arm64
C4_Witness ==
    pc = "link" /\ env.arch = "aarch64" /\ source = WindowsDir \o <<"arm64">>

\* C6: a failed filesystem operation never aborts the run (a run aborts only on an
\* unset or unrecognized environment value); when the run is over, every file and
\* directory of the artifact tree at which, and above which, no operation failed has
\* been mirrored into every outer profile directory, and both the profile search and
\* the winmd copy have been called.
C6_BestEffort ==
    /\ pc = "aborted" =>
          (env.arch \notin Recognized \/ env.profile = Unset)
    /\ (pc = "done" /\ WindowsFound) =>
          /\ log \in {<<"rerun-if-changed", "copy_to_profile", "copy winmd">>,
                      <<"rerun-if-changed", "rustc-link-search", "copy_to_profile", "copy winmd">>}
          /\ \A M \in OuterProfileDirs :
             \A p \in Under(fs, WindowsDir \o <<ArchMap(env.arch)>>) :
                LET q == M \o Rel(WindowsDir \o <<ArchMap(env.arch)>>, p) IN
                ~Affected(q) =>
                    /\ fs[p].kind = "file" => (q \in DOMAIN fs /\ fs[q] = fs[p])
                    /\ fs[p].kind = "dir" => IsDir(fs, q)
          /\ \A p \in Under(fs, WindowsDir \o <<"winmd">>) :
                LET q == TargetRoot \o <<".windows", "winmd">> \o Rel(WindowsDir \o <<"winmd">>, p) IN
                ~Affected(q) => (q \in DOMAIN fs /\ fs[q] = fs[p])

\* C6 witness: the copy of a.dll into a profile directory failed, the run went on to
\* copy sub/b.dll beside it and the winmd file, and finished
C6_Witness ==
    /\ pc = "done"
    /\ TargetRoot \o <<"release", "a.dll">> \in failed
    /\ IsFile(fs, TargetRoot \o <<"release", "sub", "b.dll">>)
    /\ IsFile(fs, TargetRoot \o <<".windows", "winmd", "w.winmd">>)

\* C7: on every run that ends without a panic and found `.windows`, copy has been
\* called on the winmd directory, and unless an operation failed at or below the
\* deployed winmd location every winmd file lies in <output root>/.windows/winmd,
\* whether or not a profile directory was found and whatever the profile is.
C7_WinmdDeployed ==
    pc = "done" =>
        /\ WindowsFound => log[Len(log)] = "copy winmd"
        /\ (WindowsDir \notin failed
            /\ \A q \in failed : ~IsPrefix(TargetRoot \o <<".windows">>, q))
           => Mirrored(fs, WindowsDir \o <<"winmd">>, TargetRoot \o <<".windows", "winmd">>)

\* C7 witness: no directory carries the profile's name, and the winmd file is deployed
C7_Witness ==
    /\ pc = "done"
    /\ ProfileDirs = {}
    /\ TargetRoot \o <<".windows", "winmd", "w.winmd">> \notin DOMAIN orig
    /\ IsFile(fs, TargetRoot \o <<".windows", "winmd", "w.winmd">>)
    /\ fs[TargetRoot \o <<".windows", "winmd", "w.winmd">>] = File(3)

\* C8 as stated: when a run with an unrecognized architecture has aborted, nothing
\* has been printed and nothing has been copied.
C8_AbortsFirst ==
    (env.arch \notin Recognized \cup {Unset} /\ pc = "aborted") => (log = <<>> /\ fs = orig)

\* C8 amended: a run with an unrecognized architecture that finds `.windows` aborts
\* at the architecture match, which comes after the rerun-if-changed line: when it
\* has aborted exactly that line has been printed, no link-search line, and nothing
\* has been copied; a run that does not find `.windows` ends without reading the
\* architecture, prints nothing and copies nothing.
C8_AbortsAfterWatch ==
    env.arch \notin Recognized =>
        /\ pc \in {"start", "arch", "aborted", "done"}
        /\ fs = orig
        /\ pc \in {"arch", "aborted"} => (WindowsFound /\ log = <<"rerun-if-changed">>)
        /\ pc = "done" => (~WindowsFound /\ log = <<>>)

\* C8 witness: the run aborted on riscv64 after printing the rerun-if-changed line
C8_Witness ==
    pc = "aborted" /\ env.arch = "riscv64" /\ log = <<"rerun-if-changed">>

\* C9 as stated: without I/O faults, once the block is past its two existence checks
\* each of the two lines has been printed exactly when the architecture directory exists.
C9_SignalsTogether ==
    (pc \in {"profile", "locating"} /\ faults = 0) =>
        /\ "rerun-if-changed" \in {log[i] : i \in DOMAIN log} <=> PathExists(fs, source)
        /\ "rustc-link-search" \in {log[i] : i \in DOMAIN log} <=> PathExists(fs, source)

\* C9 amended: the rerun-if-changed line is printed exactly when `.windows` is found
\* to exist, whether or not the architecture directory exists; the link-search line
\* is printed exactly when, in addition, the architecture is recognized and its
\* directory is found to exist.
C9_SignalsApart ==
    /\ "rerun-if-changed" \in {log[i] : i \in DOMAIN log} <=> (pc # "start" /\ WindowsFound)
    /\ "rustc-link-search" \in {log[i] : i \in DOMAIN log}
          => (pc \in {"profile", "locating", "winmd", "done", "aborted"} /\ env.arch \in Recognized)
    /\ pc \in {"profile", "locating"} =>
          ("rustc-link-search" \in {log[i] : i \in DOMAIN log}
              <=> (PathExists(fs, source) /\ source \notin failed))

\* C9 witness: `.windows` exists without the architecture directory, and only the
\* rerun-if-changed line has been printed
C9_Witness ==
    /\ pc = "profile" /\ faults = 0
    /\ ~PathExists(fs, source)
    /\ log = <<"rerun-if-changed">>

\* C10: a call of copy_to_profile, with every copy it makes, returns.
C10_LocatorTerminates == <>(pc = "searched")

\* C10 witness: the call has returned after a search two levels deep that copied the
\* artifact tree, subdirectory included
C10_Witness ==
    /\ pc = "searched"
    /\ IsFile(fs, TargetRoot \o <<"debug", "release", "sub", "b.dll">>)

\* C5: resolution ends with a Resolution Set that holds every selected node and every
\* dependency of each of its members, cycles or not; each step before the end
\* strictly lowers a measure that is at most twice the number of nodes plus one.
C5_Measure ==
    2 * Cardinality(Nodes \ resolved) + Cardinality(work) + (IF pc = "resolved" THEN 0 ELSE 1)
C5_ResolutionClosure ==
    /\ [](pc = "resolved" =>
            /\ selected \subseteq resolved
            /\ \A n \in resolved : graph[n] \subseteq resolved)
    /\ [](pc = "closing" => work \subseteq resolved)
    /\ [][pc = "closing" => C5_Measure' < C5_Measure]_vars

\* C5 witness: A and B depend on each other, only A was selected, both are resolved
C5_Witness ==
    /\ pc = "resolved"
    /\ selected = {"A"}
    /\ "B" \in graph["A"] /\ "A" \in graph["B"]
    /\ {"A", "B"} \subseteq resolved

====
